---- MODULE Spec2Model ----
(***************************************************************************)
(* Model of the provider adapter layer of core-ai-proxy: the dispatch      *)
(* router (src/proxy/adapter.ts), the Workers-AI adapter with its model    *)
(* capability registry and complexity triage                               *)
(* (src/proxy/handlers/workers-ai.ts), the streaming normalizers of the    *)
(* Workers-AI, OpenAI, Gemini, Anthropic and Ollama adapters, cleanJSON,   *)
(* the chat-completions endpoint and the settings store                    *)
(* (src/settings/storage.ts).                                              *)
(*                                                                         *)
(* Text is modelled as a sequence of one-character strings, so that        *)
(* startsWith, includes and toLowerCase are computed as the code computes  *)
(* them.                                                                   *)
(***************************************************************************)
EXTENDS Integers, Sequences, FiniteSets, TLC

(***************************************************************************)
(* Bounds of the model.                                                    *)
(***************************************************************************)
NumProcs == 2
MaxFrames == 3
MaxReg == 2
MaxText == 5

Procs == 1..NumProcs

(***************************************************************************)
(* String helpers (JavaScript String.prototype).                           *)
(***************************************************************************)
startsWith(s, prefix) ==
  /\ Len(prefix) <= Len(s)
  /\ SubSeq(s, 1, Len(prefix)) = prefix

includes(s, sub) ==
  \E i \in 1..(Len(s) + 1) :
     /\ i + Len(sub) - 1 <= Len(s)
     /\ SubSeq(s, i, i + Len(sub) - 1) = sub

lowerChar(c) ==
  CASE c = "H" -> "h"
    [] c = "I" -> "i"
    [] c = "G" -> "g"
    [] c = "L" -> "l"
    [] c = "O" -> "o"
    [] c = "W" -> "w"
    [] OTHER -> c

toLowerCase(s) == [i \in 1..Len(s) |-> lowerChar(s[i])]

RECURSIVE join(_, _)
join(parts, sep) ==
  IF Len(parts) = 0 THEN <<>>
  ELSE IF Len(parts) = 1 THEN parts[1]
  ELSE parts[1] \o sep \o join(Tail(parts), sep)

(***************************************************************************)
(* Literal strings of the router and of the registry.                      *)
(***************************************************************************)
P_gpt == <<"g", "p", "t", "-">>
P_claude == <<"c", "l", "a", "u", "d", "e", "-">>
P_gemini == <<"g", "e", "m", "i", "n", "i", "-">>
P_cf == <<"@", "c", "f", "/">>
S_workers_ai == <<"w", "o", "r", "k", "e", "r", "s", "-", "a", "i">>
S_high == <<"h", "i", "g", "h">>

Id_llama31 == <<"@", "c", "f", "/", "m", "e", "t", "a", "/", "l", "l", "a", "m", "a", "-", "3", ".", "1", "-", "8", "b", "-", "i", "n", "s", "t", "r", "u", "c", "t">>
Id_llama33 == <<"@", "c", "f", "/", "m", "e", "t", "a", "/", "l", "l", "a", "m", "a", "-", "3", ".", "3", "-", "7", "0", "b", "-", "i", "n", "s", "t", "r", "u", "c", "t", "-", "f", "p", "8", "-", "f", "a", "s", "t">>
Id_llama3 == <<"@", "c", "f", "/", "m", "e", "t", "a", "/", "l", "l", "a", "m", "a", "-", "3", "-", "8", "b", "-", "i", "n", "s", "t", "r", "u", "c", "t">>
Id_mistral == <<"@", "c", "f", "/", "m", "i", "s", "t", "r", "a", "l", "/", "m", "i", "s", "t", "r", "a", "l", "-", "7", "b", "-", "i", "n", "s", "t", "r", "u", "c", "t", "-", "v", "0", ".", "1">>
Id_qwen == <<"@", "c", "f", "/", "q", "w", "e", "n", "/", "q", "w", "e", "n", "1", ".", "5", "-", "1", "4", "b", "-", "c", "h", "a", "t", "-", "a", "w", "q">>

(***************************************************************************)
(* Model strings a caller submits.                                         *)
(***************************************************************************)
M_gpt4 == <<"g", "p", "t", "-", "4">>
M_gpt == <<"g", "p", "t">>
M_xgpt == <<"x", "g", "p", "t", "-", "4">>
M_GPT == <<"G", "P", "T", "-", "4">>
M_claude == <<"c", "l", "a", "u", "d", "e", "-", "3">>
M_gemini == <<"g", "e", "m", "i", "n", "i", "-", "p", "r", "o">>
M_cfunknown == <<"@", "c", "f", "/", "m", "e", "t", "a", "/", "l", "l", "a", "m", "a", "-", "2">>
M_ollama == <<"o", "l", "l", "a", "m", "a", "/", "l", "l", "a", "m", "a", "3">>
M_workers_ai_x == <<"w", "o", "r", "k", "e", "r", "s", "-", "a", "i", "-", "2">>

ModelStrings ==
  { M_gpt4, M_gpt, M_xgpt, M_GPT, M_claude, M_gemini, M_cfunknown, M_ollama,
    M_workers_ai_x, S_workers_ai,
    Id_llama31, Id_llama33, Id_llama3, Id_mistral, Id_qwen }

(***************************************************************************)
(* WORKERS_AI_MODELS: the capability registry, in source order.            *)
(***************************************************************************)
WORKERS_AI_MODELS ==
  << [id |-> Id_llama31, supportsTools |-> TRUE,  supportsJSON |-> TRUE,
      supportsStreaming |-> TRUE, complexity |-> "fast"],
     [id |-> Id_llama33, supportsTools |-> TRUE,  supportsJSON |-> TRUE,
      supportsStreaming |-> TRUE, complexity |-> "powerful"],
     [id |-> Id_llama3,  supportsTools |-> FALSE, supportsJSON |-> FALSE,
      supportsStreaming |-> TRUE, complexity |-> "fast"],
     [id |-> Id_mistral, supportsTools |-> FALSE, supportsJSON |-> FALSE,
      supportsStreaming |-> TRUE, complexity |-> "fast"],
     [id |-> Id_qwen,    supportsTools |-> FALSE, supportsJSON |-> TRUE,
      supportsStreaming |-> TRUE, complexity |-> "balanced"] >>

NoModel == [id |-> <<>>, supportsTools |-> FALSE, supportsJSON |-> FALSE,
            supportsStreaming |-> FALSE, complexity |-> "none"]

\* complexityOrder of the sort comparator
complexityOrder(c) ==
  CASE c = "fast" -> 0
    [] c = "balanced" -> 1
    [] c = "powerful" -> 2
    [] OTHER -> 0

\* the first hit of Array.prototype.find, or of filter(...)[0];
\* NoModel stands for undefined
firstOf(hits) == IF Len(hits) = 0 THEN NoModel ELSE hits[1]

\* getModelCapabilities falling back to the first entry instead of undefined
getModelCapabilitiesIn_default(registry, modelId) ==
  LET isId(m) == m.id = modelId
  IN IF firstOf(SelectSeq(registry, isId)) = NoModel THEN registry[1] ELSE firstOf(SelectSeq(registry, isId))

\* getModelCapabilities over a registry
getModelCapabilitiesIn(registry, modelId) ==
  LET isId(m) == m.id = modelId IN firstOf(SelectSeq(registry, isId))

getModelCapabilities(modelId) == getModelCapabilitiesIn(WORKERS_AI_MODELS, modelId)

\* first element of the stable sort by descending complexityOrder:
\* the first candidate no other candidate outranks
sortedFirst(candidates) ==
  LET best(m) == \A j \in 1..Len(candidates) :
                    complexityOrder(candidates[j].complexity) <= complexityOrder(m.complexity)
  IN firstOf(SelectSeq(candidates, best))

\* requirements: [tools: BOOLEAN, json: BOOLEAN, complexity: "none" when absent]
\* findModelForFeatures without the relaxation of lines 104-110
findModelForFeaturesIn_noRelax(registry, requirements) ==
  LET exact(m) ==
        /\ ~(requirements.tools /\ ~m.supportsTools)
        /\ ~(requirements.json /\ ~m.supportsJSON)
        /\ ~(requirements.complexity # "none" /\ m.complexity # requirements.complexity)
      isPowerful(m) == m.complexity = "powerful"
      candidates == SelectSeq(registry, exact)
  IN IF Len(candidates) = 0
     THEN (IF firstOf(SelectSeq(registry, isPowerful)) # NoModel
           THEN firstOf(SelectSeq(registry, isPowerful))
           ELSE registry[1])
     ELSE IF requirements.tools \/ requirements.json
     THEN sortedFirst(candidates)
     ELSE candidates[1]

findModelForFeaturesIn(registry, requirements) ==
  LET exact(m) ==
        /\ ~(requirements.tools /\ ~m.supportsTools)
        /\ ~(requirements.json /\ ~m.supportsJSON)
        /\ ~(requirements.complexity # "none" /\ m.complexity # requirements.complexity)
      relaxed(m) ==
        /\ ~(requirements.tools /\ ~m.supportsTools)
        /\ ~(requirements.json /\ ~m.supportsJSON)
      isPowerful(m) == m.complexity = "powerful"
      c1 == SelectSeq(registry, exact)
      candidates == IF Len(c1) = 0 THEN SelectSeq(registry, relaxed) ELSE c1
  IN IF Len(candidates) = 0
     THEN (IF firstOf(SelectSeq(registry, isPowerful)) # NoModel
           THEN firstOf(SelectSeq(registry, isPowerful))
           ELSE registry[1])
     ELSE IF requirements.tools \/ requirements.json
     THEN sortedFirst(candidates)
     ELSE candidates[1]

\* findModelForFeatures without the complexity filter and the sort
findModelForFeatures_first(requirements) ==
  LET relaxed(m) ==
        /\ ~(requirements.tools /\ ~m.supportsTools)
        /\ ~(requirements.json /\ ~m.supportsJSON)
  IN firstOf(SelectSeq(WORKERS_AI_MODELS, relaxed))

findModelForFeatures(requirements) ==
  findModelForFeaturesIn(WORKERS_AI_MODELS, requirements)

(***************************************************************************)
(* routeRequest: the adapter selected for a model string.                  *)
(***************************************************************************)
\* routeRequest matching the provider name anywhere in the model string
routeRequest_includes(model) ==
  IF includes(model, P_gpt) THEN "openai"
  ELSE IF includes(model, P_claude) THEN "anthropic"
  ELSE IF includes(model, P_gemini) THEN "gemini"
  ELSE IF includes(model, P_cf) \/ includes(model, S_workers_ai) THEN "workers-ai"
  ELSE "unsupported"

routeRequest(model) ==
  IF startsWith(model, P_gpt) THEN "openai"
  ELSE IF startsWith(model, P_claude) THEN "anthropic"
  ELSE IF startsWith(model, P_gemini) THEN "gemini"
  ELSE IF startsWith(model, P_cf) \/ model = S_workers_ai THEN "workers-ai"
  ELSE "unsupported"

(***************************************************************************)
(* Requests.  tools is "absent", "empty" or "some" (a non-empty list);     *)
(* format is the type of response_format, "absent" when there is none.     *)
(* A message content is text, or Null.                                     *)
(***************************************************************************)
Null == <<"<null>">>

ML_two == << [role |-> "user", content |-> <<"a">>],
             [role |-> "user", content |-> <<"b">>] >>
ML_one == << [role |-> "user", content |-> <<"a", "\n", "b">>] >>
ML_sys == << [role |-> "system", content |-> <<"s">>],
             [role |-> "user", content |-> <<"a">>] >>

MessageLists == { ML_two, ML_one, ML_sys }

Requests ==
  [ model : ModelStrings,
    tools : {"absent", "empty", "some"},
    format : {"absent", "text", "json_object"},
    stream : BOOLEAN,
    messages : MessageLists ]

\* the requests that reach complexity triage
TriageRequests ==
  [ model : {S_workers_ai},
    tools : {"absent"},
    format : {"absent"},
    stream : {FALSE},
    messages : MessageLists ]

NoReq == [model |-> <<>>, tools |-> "absent", format |-> "absent",
          stream |-> FALSE, messages |-> <<>>]

\* request.tools && request.tools.length > 0
hasTools(r) == r.tools = "some"

\* request.response_format && request.response_format.type === 'json_object'
wantsJSON(r) == r.format = "json_object"

(***************************************************************************)
(* analyzeComplexity: prompt, cache key and classification of the reply.   *)
(***************************************************************************)
\* messages.map(m => m.content).join('\n'); join renders null as ''
triagePromptOf(messages) ==
  join([i \in 1..Len(messages) |->
          IF messages[i].content = Null THEN <<>> ELSE messages[i].content],
       <<"\n">>)

\* SHA-256 is taken to be collision-free on the prompts of the model
hashString(text) == <<"sha256">> \o text

cacheKeyOf(messages) == <<"complexity:">> \o hashString(triagePromptOf(messages))

CacheKeys == { cacheKeyOf(ml) : ml \in MessageLists }

\* result.toLowerCase().includes('high') ? 'high' : 'low'
classify(result) == IF includes(toLowerCase(result), S_high) THEN "high" ELSE "low"

\* replies of the triage model
TriageReplies ==
  { <<"h", "i", "g", "h">>, <<"H", "i", "g", "h">>, <<"l", "o", "w">>, <<"h", "i">> }

\* replies of a generation call
GenTexts == { <<"o", "k">>, <<>> }

(***************************************************************************)
(* State.                                                                  *)
(*   proc[p]      the request handled by execution path p: its position    *)
(*                (pc), the request, the adapter routeRequest invoked, the *)
(*                locals of handleRequest and analyzeComplexity, the       *)
(*                outcome, and counters of the external calls it issued    *)
(*   kv           SETTINGS_KV restricted to the complexity keys            *)
(*   kvWriter     which path wrote the live entry of a key (0: none)       *)
(*                                                                         *)
(* The fields getFailed, inferFailed, putFailed, sawWriter and             *)
(* returnedBefore of a path record what happened to it: which of its       *)
(* external calls threw, whose entry its cache lookup returned, and on     *)
(* which paths analyzeComplexity had returned when it was submitted.       *)
(*                                                                         *)
(*   fitRegistry, fitRequirements, fitResult                               *)
(*                a registry, and the last findModelForFeatures call on it *)
(*   sAdapter, sState, sOut, sReads                                        *)
(*                the output stream an adapter builds: the adapter, the    *)
(*                state of the ReadableStream, what was enqueued so far    *)
(*                and the number of upstream reads                         *)
(*                (sState "closed": controller.close() has been called)    *)
(*   sUp          the producer loop of start(): "live" while it reads the  *)
(*                upstream, "failed" once a read has thrown, "ended" once  *)
(*                it has left the loop in any other way                    *)
(*   sText        the text the SDK upstream has produced so far, which is  *)
(*                what result.text of the non-streaming call holds         *)
(*   sTaken       how many elements of sOut the consumer has read          *)
(*   sBuffer      the Ollama line buffer                                   *)
(*   sFrames      the frames the Workers-AI producer has read, in order    *)
(*   settingsKv   SETTINGS_KV entry settings:{userId} of one user          *)
(*   upd          the updateUserSettings calls in progress for that user   *)
(*   jsonText, jsonOnce, jsonTwice                                         *)
(*                a text, cleanJSON of it and cleanJSON of that            *)
(*   toolText, toolResponse                                                *)
(*                a model reply on the tool path and the response that     *)
(*                handleToolRequest builds from it                         *)
(*   promptMessages, promptText                                            *)
(*                a message list and the flat prompt buildPrompt makes of  *)
(*                it                                                       *)
(*   oBody, oPos, oSplit                                                   *)
(*                the whole body of an Ollama response, how much of it the *)
(*                reads have delivered, and whether a read has ended       *)
(*                inside a line                                            *)
(***************************************************************************)
VARIABLES proc, kv, kvWriter,
          fitRegistry, fitRequirements, fitResult,
          sAdapter, sState, sOut, sReads, sUp, sText, sTaken, sBuffer, sFrames,
          settingsKv, upd,
          jsonText, jsonOnce, jsonTwice,
          toolText, toolResponse,
          promptMessages, promptText,
          oBody, oPos, oSplit

reqVars == <<proc, kv, kvWriter>>
fitVars == <<fitRegistry, fitRequirements, fitResult>>
streamVars ==
  <<sAdapter, sState, sOut, sReads, sUp, sText, sTaken, sBuffer, sFrames>>
settingsVars == <<settingsKv, upd>>
jsonVars == <<jsonText, jsonOnce, jsonTwice>>
pureVars ==
  <<toolText, toolResponse, promptMessages, promptText, oBody, oPos, oSplit>>
vars == <<proc, kv, kvWriter, fitRegistry, fitRequirements, fitResult,
          sAdapter, sState, sOut, sReads, sUp, sText, sTaken, sBuffer, sFrames,
          settingsKv, upd, jsonText, jsonOnce, jsonTwice,
          toolText, toolResponse, promptMessages, promptText,
          oBody, oPos, oSplit>>

NoOutcome == [kind |-> "none", error |-> "none", model |-> <<>>, raw |-> <<>>]

thrown(e) == [kind |-> "error", error |-> e, model |-> <<>>, raw |-> <<>>]

IdleProc ==
  [ pc |-> "idle", body |-> NoReq, req |-> NoReq, adapter |-> "none",
    selectedModel |-> NoModel, routingReason |-> "none",
    cacheKey |-> <<>>, complexity |-> "none", verdict |-> "none",
    mode |-> "none", outcome |-> NoOutcome,
    nGet |-> 0, nInfer |-> 0, nPut |-> 0, nGen |-> 0,
    getFailed |-> FALSE, inferFailed |-> FALSE, putFailed |-> FALSE,
    sawWriter |-> 0, returnedBefore |-> {} ]

NoRequirements == [tools |-> FALSE, json |-> FALSE, complexity |-> "unset"]

InitReq ==
  /\ proc = [p \in Procs |-> IdleProc]
  /\ kv = [k \in CacheKeys |-> "absent"]
  /\ kvWriter = [k \in CacheKeys |-> 0]

InitNoFit ==
  /\ fitRegistry = WORKERS_AI_MODELS
  /\ fitRequirements = NoRequirements
  /\ fitResult = NoModel

InitNoStream ==
  /\ sAdapter = "none"
  /\ sState = "idle"
  /\ sOut = <<>>
  /\ sReads = 0
  /\ sUp = "none"
  /\ sText = <<>>
  /\ sTaken = 0
  /\ sBuffer = <<>>
  /\ sFrames = <<>>

\* an updateUserSettings call that has not started
\* no settings: what SETTINGS_KV.get gives for a key that is not stored
NoSettings == [language |-> "absent", theme |-> "absent"]

IdleUpd ==
  [ pc |-> "idle", updates |-> NoSettings, settings |-> NoSettings, doneBefore |-> {} ]

InitNoSettings ==
  /\ settingsKv = NoSettings
  /\ upd = [p \in Procs |-> IdleUpd]

InitNoJson ==
  /\ jsonText = <<>>
  /\ jsonOnce = Null
  /\ jsonTwice = Null

NoResponse == [kind |-> "none"]

InitNoPure ==
  /\ toolText = <<>>
  /\ toolResponse = NoResponse
  /\ promptMessages = <<>>
  /\ promptText = Null
  /\ oBody = <<>>
  /\ oPos = 0
  /\ oSplit = FALSE

Init ==
  /\ InitReq /\ InitNoFit /\ InitNoStream /\ InitNoSettings /\ InitNoJson
  /\ InitNoPure

(***************************************************************************)
(* Step 3 of handleRequest with the checks that open handleToolRequest,    *)
(* handleJSONRequest and handleTextRequest: either a throw, or the         *)
(* generation call is issued and the path waits for it.                    *)
(***************************************************************************)
\* execute that takes a capable model when the selected one lacks the
\* feature
execute_substitute(st, m, reason) ==
  LET r == st.req
      sel(md) == [st EXCEPT !.selectedModel = md, !.routingReason = reason]
      call(md, mode) == [sel(md) EXCEPT !.pc = "gen", !.mode = mode, !.nGen = @ + 1]
  IN IF hasTools(r)
     THEN call(IF m.supportsTools THEN m
               ELSE findModelForFeatures([tools |-> TRUE, json |-> FALSE,
                                          complexity |-> "powerful"]), "tool")
     ELSE IF wantsJSON(r)
     THEN call(IF m.supportsJSON THEN m
               ELSE findModelForFeatures([tools |-> FALSE, json |-> TRUE,
                                          complexity |-> "none"]), "json")
     ELSE IF r.stream
     THEN (IF ~m.supportsStreaming
           THEN [sel(m) EXCEPT !.pc = "done", !.outcome = thrown("stream_unsupported")]
           ELSE call(m, "textstream"))
     ELSE call(m, "text")

execute(st, m, reason) ==
  LET r == st.req
      sel == [st EXCEPT !.selectedModel = m, !.routingReason = reason]
      fail(e) == [sel EXCEPT !.pc = "done", !.outcome = thrown(e)]
      call(md) == [sel EXCEPT !.pc = "gen", !.mode = md, !.nGen = @ + 1]
  IN IF hasTools(r)
     THEN (IF ~m.supportsTools THEN fail("tools_unsupported") ELSE call("tool"))
     ELSE IF wantsJSON(r)
     THEN (IF ~m.supportsJSON THEN fail("json_unsupported") ELSE call("json"))
     ELSE IF r.stream
     THEN (IF ~m.supportsStreaming THEN fail("stream_unsupported") ELSE call("textstream"))
     ELSE call("text")

\* afterTriage that never asks for a powerful model
afterTriage_fast(st, v) ==
  execute([st EXCEPT !.verdict = v],
          findModelForFeatures([tools |-> FALSE, json |-> FALSE, complexity |-> "fast"]),
          "complexity_low")

\* lines 234-241: the model for a triage verdict, then step 3
afterTriage(st, v) ==
  LET withV == [st EXCEPT !.verdict = v]
  IN IF v = "high"
     THEN execute(withV,
                  findModelForFeatures([tools |-> FALSE, json |-> FALSE, complexity |-> "powerful"]),
                  "complexity_high")
     ELSE execute(withV,
                  findModelForFeatures([tools |-> FALSE, json |-> FALSE, complexity |-> "fast"]),
                  "complexity_low")

\* handleRequest that looks at the tools before the explicit model
handleRequestWorkersAi_toolsFirst(st) ==
  LET r == st.req IN
  IF hasTools(r)
  THEN execute(st,
               findModelForFeatures([tools |-> TRUE, json |-> FALSE, complexity |-> "powerful"]),
               "tools_required")
  ELSE IF startsWith(r.model, P_cf)
  THEN (IF getModelCapabilities(r.model) = NoModel
        THEN [st EXCEPT !.pc = "done", !.outcome = thrown("unknown_model")]
        ELSE execute(st, getModelCapabilities(r.model), "user_specified"))
  ELSE IF wantsJSON(r)
  THEN execute(st,
               findModelForFeatures([tools |-> FALSE, json |-> TRUE, complexity |-> "none"]),
               "json_required")
  ELSE [st EXCEPT !.pc = "kvget", !.cacheKey = cacheKeyOf(r.messages), !.nGet = @ + 1]

\* workers-ai handleRequest up to its first await
handleRequestWorkersAi(st) ==
  LET r == st.req IN
  IF startsWith(r.model, P_cf)
  THEN (IF getModelCapabilities(r.model) = NoModel
        THEN [st EXCEPT !.pc = "done", !.outcome = thrown("unknown_model")]
        ELSE execute(st, getModelCapabilities(r.model), "user_specified"))
  ELSE IF hasTools(r)
  THEN execute(st,
               findModelForFeatures([tools |-> TRUE, json |-> FALSE, complexity |-> "powerful"]),
               "tools_required")
  ELSE IF wantsJSON(r)
  THEN execute(st,
               findModelForFeatures([tools |-> FALSE, json |-> TRUE, complexity |-> "none"]),
               "json_required")
  ELSE [st EXCEPT !.pc = "kvget", !.cacheKey = cacheKeyOf(r.messages), !.nGet = @ + 1]

\* the handlers of the SDK adapters up to their upstream call
handleRequestSdk(st) ==
  [st EXCEPT !.pc = "gen",
             !.mode = IF st.req.stream THEN "sdkstream" ELSE "sdk",
             !.nGen = @ + 1]

\* routeRequest(request, env) up to the first await of the handler it picks
dispatch(st) ==
  LET a == routeRequest(st.req.model)
      routed == [st EXCEPT !.adapter = a]
  IN IF a = "unsupported"
     THEN [routed EXCEPT !.pc = "done", !.outcome = thrown("unsupported_model")]
     ELSE IF a = "workers-ai" THEN handleRequestWorkersAi(routed)
     ELSE handleRequestSdk(routed)

\* the paths on which analyzeComplexity has returned
returnedPaths == { q \in Procs : proc[q].verdict # "none" }

Submit(p, r) ==
  /\ proc[p].pc = "idle"
  /\ proc' = [proc EXCEPT ![p] =
                dispatch([IdleProc EXCEPT !.req = r, !.returnedBefore = returnedPaths])]
  /\ UNCHANGED <<kv, kvWriter, fitVars, streamVars, settingsVars, jsonVars, pureVars>>

SubmitAny(p) == \E r \in Requests : Submit(p, r)

\* types.ts lines 60-86: ChatCompletionRequestSchema.parse(body) of a body
\* that passes; the schema has no response_format key, and a zod object
\* drops the keys it does not declare
parseRequest(body) == [body EXCEPT !.format = "absent"]

\* adapter.ts lines 288-293: POST /v1/chat/completions up to the first
\* await of the handler
Post(p, body) ==
  /\ proc[p].pc = "idle"
  /\ proc' = [proc EXCEPT ![p] =
                dispatch([IdleProc EXCEPT !.body = body,
                                          !.req = parseRequest(body),
                                          !.returnedBefore = returnedPaths])]
  /\ UNCHANGED <<kv, kvWriter, fitVars, streamVars, settingsVars, jsonVars, pureVars>>

SubmitTriage(p) == \E r \in TriageRequests : Submit(p, r)

(***************************************************************************)
(* analyzeComplexity, one action per await.                                *)
(***************************************************************************)
\* KvGetReturn that takes only a cached 'high' for a hit
KvGetReturn_highOnly(p) ==
  /\ proc[p].pc = "kvget"
  /\ \E failed \in BOOLEAN :
       LET st == proc[p]
           cached == IF failed THEN "absent" ELSE kv[st.cacheKey]
           seen == [st EXCEPT !.getFailed = failed,
                              !.sawWriter = IF failed THEN 0 ELSE kvWriter[st.cacheKey]]
       IN proc' = [proc EXCEPT ![p] =
            IF cached = "high"
            THEN afterTriage(seen, cached)
            ELSE [seen EXCEPT !.pc = "infer", !.nInfer = @ + 1]]
  /\ UNCHANGED <<kv, kvWriter, fitVars, streamVars, settingsVars, jsonVars, pureVars>>

\* lines 151-159: SETTINGS_KV.get returns, or throws
KvGetReturn(p) ==
  /\ proc[p].pc = "kvget"
  /\ \E failed \in BOOLEAN :
       LET st == proc[p]
           cached == IF failed THEN "absent" ELSE kv[st.cacheKey]
           seen == [st EXCEPT !.getFailed = failed,
                              !.sawWriter = IF failed THEN 0 ELSE kvWriter[st.cacheKey]]
       IN proc' = [proc EXCEPT ![p] =
            IF cached = "low" \/ cached = "high"
            THEN afterTriage(seen, cached)
            ELSE [seen EXCEPT !.pc = "infer", !.nInfer = @ + 1]]
  /\ UNCHANGED <<kv, kvWriter, fitVars, streamVars, settingsVars, jsonVars, pureVars>>

\* InferReturn without the catch of lines 192-196
InferReturn_rethrow(p) ==
  /\ proc[p].pc = "infer"
  /\ \/ \E result \in TriageReplies :
          proc' = [proc EXCEPT ![p] =
                     [@ EXCEPT !.pc = "kvput", !.complexity = classify(result),
                               !.nPut = @ + 1]]
     \/ proc' = [proc EXCEPT ![p] =
                     [@ EXCEPT !.pc = "done", !.inferFailed = TRUE,
                               !.outcome = thrown("triage_failed")]]
  /\ UNCHANGED <<kv, kvWriter, fitVars, streamVars, settingsVars, jsonVars, pureVars>>

\* InferReturn that puts the fallback verdict into the cache
InferReturn_cachesFallback(p) ==
  /\ proc[p].pc = "infer"
  /\ \/ \E result \in TriageReplies :
          proc' = [proc EXCEPT ![p] =
                     [@ EXCEPT !.pc = "kvput", !.complexity = classify(result),
                               !.nPut = @ + 1]]
     \/ proc' = [proc EXCEPT ![p] =
                     [@ EXCEPT !.pc = "kvput", !.inferFailed = TRUE,
                               !.complexity = "high", !.nPut = @ + 1]]
  /\ UNCHANGED <<kv, kvWriter, fitVars, streamVars, settingsVars, jsonVars, pureVars>>

\* lines 173-181 and 192-196: the triage generateText returns, or throws
InferReturn(p) ==
  /\ proc[p].pc = "infer"
  /\ \/ \E result \in TriageReplies :
          proc' = [proc EXCEPT ![p] =
                     [@ EXCEPT !.pc = "kvput", !.complexity = classify(result),
                               !.nPut = @ + 1]]
     \/ proc' = [proc EXCEPT ![p] =
                     afterTriage([@ EXCEPT !.inferFailed = TRUE], "high")]
  /\ UNCHANGED <<kv, kvWriter, fitVars, streamVars, settingsVars, jsonVars, pureVars>>

\* KvPutReturn that stores the fallback verdict instead of the computed one
KvPutReturn_storesHigh(p) ==
  /\ proc[p].pc = "kvput"
  /\ LET st == proc[p] IN
     \/ /\ kv' = [kv EXCEPT ![st.cacheKey] = "high"]
        /\ kvWriter' = [kvWriter EXCEPT ![st.cacheKey] = p]
        /\ proc' = [proc EXCEPT ![p] = afterTriage(st, st.complexity)]
     \/ /\ UNCHANGED <<kv, kvWriter>>
        /\ proc' = [proc EXCEPT ![p] =
                      afterTriage([st EXCEPT !.putFailed = TRUE], st.complexity)]
  /\ UNCHANGED <<fitVars, streamVars, settingsVars, jsonVars, pureVars>>

\* lines 184-191: SETTINGS_KV.put returns, or throws
KvPutReturn(p) ==
  /\ proc[p].pc = "kvput"
  /\ LET st == proc[p] IN
     \/ /\ kv' = [kv EXCEPT ![st.cacheKey] = st.complexity]
        /\ kvWriter' = [kvWriter EXCEPT ![st.cacheKey] = p]
        /\ proc' = [proc EXCEPT ![p] = afterTriage(st, st.complexity)]
     \/ /\ UNCHANGED <<kv, kvWriter>>
        /\ proc' = [proc EXCEPT ![p] =
                      afterTriage([st EXCEPT !.putFailed = TRUE], st.complexity)]
  /\ UNCHANGED <<fitVars, streamVars, settingsVars, jsonVars, pureVars>>

\* expirationTtl: 604800 -- an entry expires
KvExpire(k) ==
  /\ kv[k] # "absent"
  /\ kv' = [kv EXCEPT ![k] = "absent"]
  /\ kvWriter' = [kvWriter EXCEPT ![k] = 0]
  /\ UNCHANGED <<proc, fitVars, streamVars, settingsVars, jsonVars, pureVars>>

(***************************************************************************)
(* The generation call of the selected handler returns, or throws.         *)
(***************************************************************************)
responseModel(st) ==
  IF st.adapter = "workers-ai" THEN st.selectedModel.id ELSE st.req.model

\* GenReturn that issues the generation call again when it has failed
GenReturn_retry(p) ==
  /\ proc[p].pc = "gen"
  /\ LET st == proc[p] IN
     \/ \E text \in GenTexts :
          proc' = [proc EXCEPT ![p] =
            [st EXCEPT !.pc = "done",
                       !.outcome = [kind |-> "response", error |-> "none",
                                    model |-> responseModel(st), raw |-> text]]]
     \/ proc' = [proc EXCEPT ![p] =
            IF st.nGen < 2
            THEN [st EXCEPT !.nGen = @ + 1]
            ELSE [st EXCEPT !.pc = "done", !.outcome = thrown("upstream")]]
  /\ UNCHANGED <<kv, kvWriter, fitVars, streamVars, settingsVars, jsonVars, pureVars>>

\* GenReturn that answers every request that asks for a stream with one
GenReturn_streamsAll(p) ==
  /\ proc[p].pc = "gen"
  /\ LET st == proc[p]
         streams == st.req.stream \/ st.mode \in {"textstream", "sdkstream"}
     IN
     \/ \E text \in GenTexts :
          proc' = [proc EXCEPT ![p] =
            [st EXCEPT !.pc = "done",
                       !.outcome =
                         [kind |-> IF streams THEN "stream" ELSE "response",
                          error |-> "none",
                          model |-> responseModel(st),
                          raw |-> IF streams THEN <<>> ELSE text]]]
     \/ proc' = [proc EXCEPT ![p] =
            [st EXCEPT !.pc = "done", !.outcome = thrown("upstream")]]
  /\ UNCHANGED <<kv, kvWriter, fitVars, streamVars, settingsVars, jsonVars, pureVars>>

\* the awaited generateText / generateTextStream / streamText returns, or
\* throws and the handler's promise rejects with it
GenReturn(p) ==
  /\ proc[p].pc = "gen"
  /\ LET st == proc[p] IN
     \/ \E text \in GenTexts :
          proc' = [proc EXCEPT ![p] =
            [st EXCEPT !.pc = "done",
                       !.outcome =
                         [kind |-> IF st.mode \in {"textstream", "sdkstream"}
                                   THEN "stream" ELSE "response",
                          error |-> "none",
                          model |-> responseModel(st),
                          raw |-> IF st.mode \in {"textstream", "sdkstream"}
                                  THEN <<>> ELSE text]]]
     \/ proc' = [proc EXCEPT ![p] =
            [st EXCEPT !.pc = "done", !.outcome = thrown("upstream")]]
  /\ UNCHANGED <<kv, kvWriter, fitVars, streamVars, settingsVars, jsonVars, pureVars>>

\* adapter.ts lines 288-318: what POST /v1/chat/completions answers for the
\* outcome of routeRequest; the body of an error has a message and a type
\* and no other field
chatCompletions(outcome) ==
  IF outcome.kind = "error"
  THEN [status |-> 400, type |-> "invalid_request_error",
        message |-> outcome.error, provider |-> "absent"]
  ELSE [status |-> 200, type |-> "none", message |-> "none", provider |-> "absent"]

\* the path is free for the next request
Reset(p) ==
  /\ proc[p].pc = "done"
  /\ proc' = [proc EXCEPT ![p] = IdleProc]
  /\ UNCHANGED <<kv, kvWriter, fitVars, streamVars, settingsVars, jsonVars, pureVars>>

(***************************************************************************)
(* findModelForFeatures over an arbitrary non-empty registry.              *)
(***************************************************************************)
regId(i) == <<"@", "c", "f", "/", "m">> \o << CASE i = 1 -> "1" [] i = 2 -> "2"
                                             [] i = 3 -> "3" [] OTHER -> "4" >>

EntryShapes ==
  [ supportsTools : BOOLEAN, supportsJSON : BOOLEAN,
    complexity : {"fast", "balanced", "powerful"} ]

registriesOfLen(n) ==
  { [i \in 1..n |->
       [id |-> regId(i), supportsTools |-> f[i].supportsTools,
        supportsJSON |-> f[i].supportsJSON, supportsStreaming |-> TRUE,
        complexity |-> f[i].complexity]] : f \in [1..n -> EntryShapes] }

Registries == UNION { registriesOfLen(n) : n \in 1..MaxReg }

Requirements ==
  [ tools : BOOLEAN, json : BOOLEAN,
    complexity : {"none", "fast", "balanced", "powerful"} ]

InitFit ==
  /\ InitReq
  /\ InitNoStream
  /\ InitNoSettings
  /\ InitNoJson
  /\ InitNoPure
  /\ fitRegistry \in Registries
  /\ fitRequirements = NoRequirements
  /\ fitResult = NoModel

FindModel(requirements) ==
  /\ fitRequirements' = requirements
  /\ fitResult' = findModelForFeaturesIn(fitRegistry, requirements)
  /\ UNCHANGED <<fitRegistry, reqVars, streamVars, settingsVars, jsonVars, pureVars>>

(***************************************************************************)
(* The output streams of createStreamingResponse (Workers-AI) and of       *)
(* createSSEStream (OpenAI, Gemini).  An element of sOut is a chunk        *)
(* [content, finish] or the [DONE] sentinel; content "absent" is the       *)
(* delta {} .                                                              *)
(***************************************************************************)
DoneSentinel == [content |-> "absent", finish |-> "[DONE]"]

finalChunk == [content |-> "absent", finish |-> "stop"]

contentChunk(text) == [content |-> text, finish |-> "null"]

\* What reader.read() of the Workers-AI stream can deliver: the decoded
\* text of the frame and what JSON.parse makes of it.
WaiFrames ==
  { [raw |-> "{response:a}", parsed |-> "object", response |-> "a", text |-> ""],
    [raw |-> "{text:b}",     parsed |-> "object", response |-> "",  text |-> "b"],
    [raw |-> "{response:}",  parsed |-> "object", response |-> "",  text |-> ""],
    [raw |-> "null",         parsed |-> "null",   response |-> "",  text |-> ""],
    [raw |-> "42",           parsed |-> "number", response |-> "",  text |-> ""],
    [raw |-> "a",            parsed |-> "invalid", response |-> "", text |-> ""] }

\* lines 381-388: chunkText of a frame
chunkTextOf(frame) ==
  IF frame.parsed = "invalid" \/ frame.parsed = "null"
  THEN frame.raw
  ELSE IF frame.response # "" THEN frame.response
  ELSE IF frame.text # "" THEN frame.text
  ELSE ""

\* What the textStream iterator of the SDK yields: strings.  A string has
\* no delta property, so chunk.delta is undefined and JSON.stringify leaves
\* content out of the delta ("absent").
SdkItems ==
  { [kind |-> "string", delta |-> "absent", value |-> "a"],
    [kind |-> "string", delta |-> "absent", value |-> "b"] }

StreamAdapters == {"workers-ai", "openai", "gemini"}

\* every adapter that builds an output stream
OutputStreams == StreamAdapters \cup {"anthropic", "ollama"}

\* The ReadableStream is readable until it is errored, or until close() was
\* called and the consumer has read everything that was enqueued.
readable ==
  sState = "open" \/ (sState = "closed" /\ sTaken < Len(sOut))

\* controller.error(e): errors a readable stream and discards its queue;
\* does nothing on a stream that is closed or errored already
controllerError == IF readable THEN "errored" ELSE sState

\* new ReadableStream({ start(controller) ... }) up to the first read
StartStream(a) ==
  /\ sState = "idle"
  /\ sAdapter' = a
  /\ sState' = "open"
  /\ sUp' = "live"
  /\ UNCHANGED <<sOut, sReads, sText, sTaken, sBuffer, sFrames,
               reqVars, fitVars, settingsVars, jsonVars, pureVars>>

\* workers-ai.ts lines 371-410: one frame read and normalized
WaiFrame(frame) ==
  /\ sAdapter = "workers-ai"
  /\ sUp = "live"
  /\ sReads < MaxFrames
  /\ sReads' = sReads + 1
  /\ sOut' = IF chunkTextOf(frame) # ""
             THEN Append(sOut, contentChunk(chunkTextOf(frame)))
             ELSE sOut
  /\ sFrames' = Append(sFrames, frame)
  /\ UNCHANGED <<sAdapter, sState, sUp, sText, sTaken, sBuffer,
               reqVars, fitVars, settingsVars, jsonVars, pureVars>>

\* WaiDone that closes with the sentinel only
WaiDone_noFinalChunk ==
  /\ sAdapter = "workers-ai"
  /\ sUp = "live"
  /\ sOut' = Append(sOut, DoneSentinel)
  /\ sState' = "closed"
  /\ sUp' = "ended"
  /\ UNCHANGED <<sAdapter, sReads, sText, sTaken, sBuffer, sFrames,
               reqVars, fitVars, settingsVars, jsonVars, pureVars>>

\* workers-ai.ts lines 374 and 412-431: done, final chunk, [DONE], close
WaiDone ==
  /\ sAdapter = "workers-ai"
  /\ sUp = "live"
  /\ sOut' = sOut \o <<finalChunk, DoneSentinel>>
  /\ sState' = "closed"
  /\ sUp' = "ended"
  /\ UNCHANGED <<sAdapter, sReads, sText, sTaken, sBuffer, sFrames,
               reqVars, fitVars, settingsVars, jsonVars, pureVars>>

\* createSSEStream: one item of textStream
SdkItem(item) ==
  /\ sAdapter \in {"openai", "gemini"}
  /\ sUp = "live"
  /\ sReads < MaxFrames
  /\ sReads' = sReads + 1
  /\ sOut' = Append(sOut, contentChunk(item.delta))
  /\ sText' = sText \o <<item.value>>
  /\ UNCHANGED <<sAdapter, sState, sUp, sTaken, sBuffer, sFrames,
               reqVars, fitVars, settingsVars, jsonVars, pureVars>>

\* createSSEStream: the iterator is exhausted
SdkEnd ==
  /\ sAdapter \in {"openai", "gemini"}
  /\ sUp = "live"
  /\ sOut' = sOut \o <<finalChunk, DoneSentinel>>
  /\ sState' = "closed"
  /\ sUp' = "ended"
  /\ UNCHANGED <<sAdapter, sReads, sText, sTaken, sBuffer, sFrames,
               reqVars, fitVars, settingsVars, jsonVars, pureVars>>

(***************************************************************************)
(* The output stream of the Anthropic handler.                             *)
(***************************************************************************)
\* events of the upstream message stream
AnthEvents ==
  { [type |-> "content_block_delta", delta |-> "text_delta",       text |-> "a"],
    [type |-> "content_block_delta", delta |-> "input_json_delta", text |-> ""],
    [type |-> "message_start",       delta |-> "none",             text |-> ""],
    [type |-> "message_stop",        delta |-> "none",             text |-> ""] }

\* One turn of for await (const event of streamResponse).  enqueue and
\* close throw on a stream whose close() was called already; the throw
\* lands in the catch, which calls controller.error and leaves the loop.
AnthEvent(event) ==
  /\ sAdapter = "anthropic"
  /\ sUp = "live"
  /\ sReads < MaxFrames
  /\ sReads' = sReads + 1
  /\ LET isText == event.type = "content_block_delta" /\ event.delta = "text_delta"
         isStop == event.type = "message_stop"
     IN IF ~isText /\ ~isStop
        THEN UNCHANGED <<sOut, sState, sUp>>
        ELSE IF sState # "open"
        THEN /\ sState' = controllerError
             /\ sUp' = "ended"
             /\ sOut' = sOut
        ELSE IF isText
        THEN /\ sOut' = Append(sOut, contentChunk(event.text))
             /\ UNCHANGED <<sState, sUp>>
        ELSE /\ sOut' = sOut \o <<finalChunk, DoneSentinel>>
             /\ sState' = "closed"
             /\ sUp' = "live"
  /\ UNCHANGED <<sAdapter, sText, sTaken, sBuffer, sFrames,
               reqVars, fitVars, settingsVars, jsonVars, pureVars>>

\* the event iterator is exhausted: the loop and start() end
AnthEnd ==
  /\ sAdapter = "anthropic"
  /\ sUp = "live"
  /\ sUp' = "ended"
  /\ UNCHANGED <<sAdapter, sState, sOut, sReads, sText, sTaken, sBuffer, sFrames,
               reqVars, fitVars, settingsVars, jsonVars, pureVars>>

(***************************************************************************)
(* The output stream of the Ollama handler.  The upstream body is text     *)
(* made of the tokens below; a read delivers one or two of them.           *)
(*   "A"   {"message":{"content":"a"},"done":false}                         *)
(*   "D"   {"message":{"content":""},"done":true}                           *)
(*   "E"   {"message":{"content":"a"},"done":true}                          *)
(*   "x"   text that is not JSON                                           *)
(*   "\n"  the line separator                                              *)
(* A JSON line can also arrive in two pieces, an opening and a closing:    *)
(*   "<"   {"message":{"content":"a                                         *)
(*   "d"   {"message":{"content":"                                          *)
(*   ">"   "},"done":false}                                                 *)
(*   "!"   "},"done":true}                                                  *)
(* so "A" is the text of "<" ">", "D" that of "d" "!", "E" that of "<" "!". *)
(***************************************************************************)
OllamaTokens == {"A", "D", "E", "x", "\n"}

OllamaPieces == {"<", "d", ">", "!", "x", "\n"}

RECURSIVE pieces(_)
\* the text of a line in pieces
pieces(line) ==
  IF line = <<>> THEN <<>>
  ELSE (CASE Head(line) = "A" -> <<"<", ">">>
          [] Head(line) = "D" -> <<"d", "!">>
          [] Head(line) = "E" -> <<"<", "!">>
          [] OTHER -> <<Head(line)>>) \o pieces(Tail(line))

OllamaReads ==
  { <<t>> : t \in OllamaTokens } \cup { <<t, u>> : t, u \in OllamaTokens }

RECURSIVE split(_)
\* buffer.split('\n')
split(text) ==
  IF \A i \in 1..Len(text) : text[i] # "\n"
  THEN <<text>>
  ELSE LET i == CHOOSE k \in 1..Len(text) :
                  text[k] = "\n" /\ \A j \in 1..(k - 1) : text[j] # "\n"
       IN <<SubSeq(text, 1, i - 1)>> \o split(SubSeq(text, i + 1, Len(text)))

\* JSON.parse(line): a line that is exactly one opening and one closing
\* piece parses
ollamaChunk(line) ==
  LET text == pieces(line) IN
  IF Len(text) = 2 /\ text[1] \in {"<", "d"} /\ text[2] \in {">", "!"}
  THEN [valid |-> TRUE,
        content |-> IF text[1] = "<" THEN "a" ELSE "",
        done |-> text[2] = "!"]
  ELSE [valid |-> FALSE, content |-> "", done |-> FALSE]

RECURSIVE processLines(_, _)
\* types.ts lines 274-307: the lines of one read, in order, up to the
\* first done line; out is what has been enqueued
processLines(lines, out) ==
  IF lines = <<>>
  THEN [out |-> out, done |-> FALSE]
  ELSE LET c == ollamaChunk(Head(lines))
           out1 == IF c.content # ""
                   THEN Append(out, [content |-> c.content,
                                     finish |-> IF c.done THEN "stop" ELSE "null"])
                   ELSE out
       IN IF Head(lines) = <<>> \/ ~c.valid
          THEN processLines(Tail(lines), out)
          ELSE IF c.done
          THEN [out |-> Append(out1, DoneSentinel), done |-> TRUE]
          ELSE processLines(Tail(lines), out1)

\* types.ts lines 256-260: the response has no body
OllamaNoBody ==
  /\ sState = "idle"
  /\ sAdapter' = "ollama"
  /\ sState' = "closed"
  /\ UNCHANGED <<sOut, sReads, sUp, sText, sTaken, sBuffer, sFrames,
               reqVars, fitVars, settingsVars, jsonVars, pureVars>>

\* ollamaStep that splits the text of the read alone
ollamaStep_noBuffer(buffer, out, value) ==
  LET lines == split(value)
      res == processLines(SubSeq(lines, 1, Len(lines) - 1), out)
  IN [buffer |-> lines[Len(lines)], out |-> res.out, done |-> res.done]

\* types.ts lines 270-307: the text of one read is appended to the buffer,
\* the buffer is split, its last part is kept and the lines are processed
ollamaStep(buffer, out, value) ==
  LET lines == split(buffer \o value)
      res == processLines(SubSeq(lines, 1, Len(lines) - 1), out)
  IN [buffer |-> lines[Len(lines)], out |-> res.out, done |-> res.done]

\* types.ts lines 267-308: one read, split into lines and processed
OllamaRead(value) ==
  /\ sAdapter = "ollama"
  /\ sUp = "live"
  /\ sReads < MaxFrames
  /\ sReads' = sReads + 1
  /\ LET res == ollamaStep(sBuffer, sOut, value)
     IN /\ sBuffer' = res.buffer
        /\ sOut' = res.out
        /\ sState' = IF res.done THEN "closed" ELSE sState
        /\ sUp' = IF res.done THEN "ended" ELSE sUp
  /\ UNCHANGED <<sAdapter, sText, sTaken, sFrames,
               reqVars, fitVars, settingsVars, jsonVars, pureVars>>

\* types.ts lines 268 and 310: the body has ended
OllamaEnd ==
  /\ sAdapter = "ollama"
  /\ sUp = "live"
  /\ sState' = "closed"
  /\ sUp' = "ended"
  /\ UNCHANGED <<sAdapter, sOut, sReads, sText, sTaken, sBuffer, sFrames,
               reqVars, fitVars, settingsVars, jsonVars, pureVars>>

(***************************************************************************)
(* Failure of the upstream, and the consumer of the output stream.         *)
(***************************************************************************)
\* ReadThrows that ends the stream as if the upstream had completed
ReadThrows_closes ==
  /\ sUp = "live"
  /\ sUp' = "failed"
  /\ sOut' = IF sState = "open" THEN sOut \o <<finalChunk, DoneSentinel>> ELSE sOut
  /\ sState' = "closed"
  /\ UNCHANGED <<sAdapter, sReads, sText, sTaken, sBuffer, sFrames,
               reqVars, fitVars, settingsVars, jsonVars, pureVars>>

\* catch (error) { controller.error(error) }: the upstream read throws
ReadThrows ==
  /\ sUp = "live"
  /\ sUp' = "failed"
  /\ sState' = controllerError
  /\ UNCHANGED <<sAdapter, sOut, sReads, sText, sTaken, sBuffer, sFrames,
               reqVars, fitVars, settingsVars, jsonVars, pureVars>>

\* the consumer reads the next element of a readable stream
Consume ==
  /\ readable
  /\ sTaken < Len(sOut)
  /\ sTaken' = sTaken + 1
  /\ UNCHANGED <<sAdapter, sState, sOut, sReads, sUp, sText, sBuffer, sFrames,
               reqVars, fitVars, settingsVars, jsonVars, pureVars>>

(***************************************************************************)
(* cleanJSON.  A text is a sequence of characters of JsonAlphabet; indices *)
(* are those of the code: they count from 0 and -1 means not found.        *)
(***************************************************************************)
JsonAlphabet == {"{", "}", "[", "]", "1", "\"", ",", ":"}

Texts == UNION { [1..n -> JsonAlphabet] : n \in 0..MaxText }

\* text.indexOf(ch)
indexOf(text, ch) ==
  IF \A i \in 1..Len(text) : text[i] # ch
  THEN -1
  ELSE (CHOOSE i \in 1..Len(text) :
          text[i] = ch /\ \A j \in 1..(i - 1) : text[j] # ch) - 1

lastIndexOf_first(text, ch) == indexOf(text, ch)

\* text.lastIndexOf(ch)
lastIndexOf(text, ch) ==
  IF \A i \in 1..Len(text) : text[i] # ch
  THEN -1
  ELSE (CHOOSE i \in 1..Len(text) :
          text[i] = ch /\ \A j \in (i + 1)..Len(text) : text[j] # ch) - 1

\* substring that drops the first and the last character of the range
substring_inner(text, start, end) == SubSeq(text, start + 2, end - 1)

\* text.substring(start, end) for 0 <= start < end <= text.length
substring(text, start, end) == SubSeq(text, start + 1, end)

\* the character at position i (counted from 1), "" past the end
charAt(text, i) == IF i \in 1..Len(text) THEN text[i] ELSE ""

RECURSIVE parseValue(_, _)
RECURSIVE parseElements(_, _)
RECURSIVE parseMembers(_, _)
RECURSIVE parseDigits(_, _)

\* the position after the digits that start at position i
parseDigits(text, i) ==
  IF charAt(text, i) = "1" THEN parseDigits(text, i + 1) ELSE i

\* The JSON grammar over JsonAlphabet: the position after the value that
\* starts at position i, or 0 when no value starts there.
parseValue(text, i) ==
  LET c == charAt(text, i) IN
  IF c = "1" THEN parseDigits(text, i)
  ELSE IF c = "\""
  THEN (IF \E k \in (i + 1)..Len(text) : text[k] = "\""
        THEN (CHOOSE k \in (i + 1)..Len(text) :
                text[k] = "\"" /\ \A j \in (i + 1)..(k - 1) : text[j] # "\"") + 1
        ELSE 0)
  ELSE IF c = "["
  THEN (IF charAt(text, i + 1) = "]" THEN i + 2 ELSE parseElements(text, i + 1))
  ELSE IF c = "{"
  THEN (IF charAt(text, i + 1) = "}" THEN i + 2 ELSE parseMembers(text, i + 1))
  ELSE 0

\* value (, value)* ] from position i
parseElements(text, i) ==
  LET v == parseValue(text, i) IN
  IF v = 0 THEN 0
  ELSE IF charAt(text, v) = "," THEN parseElements(text, v + 1)
  ELSE IF charAt(text, v) = "]" THEN v + 1
  ELSE 0

\* string : value (, string : value)* } from position i
parseMembers(text, i) ==
  LET k == IF charAt(text, i) = "\"" THEN parseValue(text, i) ELSE 0
      v == IF k # 0 /\ charAt(text, k) = ":" THEN parseValue(text, k + 1) ELSE 0
  IN IF v = 0 THEN 0
     ELSE IF charAt(text, v) = "," THEN parseMembers(text, v + 1)
     ELSE IF charAt(text, v) = "}" THEN v + 1
     ELSE 0

\* JSON.parse(text) does not throw
isJSON(text) == parseValue(text, 1) = Len(text) + 1

\* workers-ai.ts lines 570-601
cleanJSON(text) ==
  LET firstBrace == indexOf(text, "{")
      firstBracket == indexOf(text, "[")
      lastBrace == lastIndexOf(text, "}")
      lastBracket == lastIndexOf(text, "]")
      useBrace == firstBrace >= 0 /\ (firstBracket < 0 \/ firstBrace < firstBracket)
      useBracket == ~useBrace /\ firstBracket >= 0
      start == IF useBrace THEN firstBrace ELSE IF useBracket THEN firstBracket ELSE -1
      end == IF useBrace THEN lastBrace + 1 ELSE IF useBracket THEN lastBracket + 1 ELSE -1
  IN IF start >= 0 /\ end > start /\ isJSON(substring(text, start, end))
     THEN substring(text, start, end)
     ELSE text

InitJson ==
  /\ InitReq
  /\ InitNoFit
  /\ InitNoStream
  /\ InitNoSettings
  /\ jsonText \in Texts
  /\ jsonOnce = Null
  /\ jsonTwice = Null
  /\ InitNoPure

\* cleanJSON applied to the text, and to its own result
CleanTwice ==
  /\ jsonOnce = Null
  /\ jsonOnce' = cleanJSON(jsonText)
  /\ jsonTwice' = cleanJSON(cleanJSON(jsonText))
  /\ UNCHANGED <<jsonText, reqVars, fitVars, streamVars, settingsVars, pureVars>>

(***************************************************************************)
(* settings/storage.ts: updateUserSettings for one user.  Of the settings  *)
(* the fields language and theme are kept.  A SETTINGS_KV call is one      *)
(* action at its return; it returns or throws.                             *)
(***************************************************************************)
UserSettings == [language : {"python", "javascript"}, theme : {"dark", "light"}]

\* the updates argument: a value for some of the fields
Updates ==
  [ language : {"absent", "python", "javascript"},
    theme : {"absent", "dark", "light"} ] \ {NoSettings}

\* lines 132-141
defaultSettings == [language |-> "python", theme |-> "dark"]

\* line 185: { ...settings, ...updates }
merge(settings, updates) ==
  [ language |-> IF updates.language # "absent" THEN updates.language ELSE settings.language,
    theme |-> IF updates.theme # "absent" THEN updates.theme ELSE settings.theme ]

\* the calls that have returned
doneCalls == { q \in Procs : upd[q].pc = "done" }

InitSettings ==
  /\ InitReq
  /\ InitNoFit
  /\ InitNoStream
  /\ InitNoJson
  /\ InitNoPure
  /\ settingsKv \in {NoSettings} \cup UserSettings
  /\ upd = [p \in Procs |-> IdleUpd]

\* updateUserSettings(userId, updates, env) up to the SETTINGS_KV.get of
\* getUserSettings
UpdateUserSettings(p, updates) ==
  /\ upd[p].pc = "idle"
  /\ upd' = [upd EXCEPT ![p] = [IdleUpd EXCEPT !.pc = "get", !.updates = updates,
                                                !.doneBefore = doneCalls]]
  /\ UNCHANGED <<settingsKv, reqVars, fitVars, streamVars, jsonVars, pureVars>>

\* lines 76-83 and 178-186: the get returns; without stored settings the
\* defaults are saved first, else the merged settings are saved
GetUserSettingsReturn(p) ==
  /\ upd[p].pc = "get"
  /\ \/ upd' = [upd EXCEPT ![p] =
                  IF settingsKv = NoSettings
                  THEN [@ EXCEPT !.pc = "putDefault", !.settings = defaultSettings]
                  ELSE [@ EXCEPT !.pc = "put", !.settings = merge(settingsKv, upd[p].updates)]]
     \/ upd' = [upd EXCEPT ![p] = [@ EXCEPT !.pc = "failed"]]
  /\ UNCHANGED <<settingsKv, reqVars, fitVars, streamVars, jsonVars, pureVars>>

\* lines 143-144 and 185-186: the put of createDefaultSettings returns; the
\* updates are merged into the defaults and saved
CreateDefaultSettingsReturn(p) ==
  /\ upd[p].pc = "putDefault"
  /\ \/ /\ settingsKv' = upd[p].settings
        /\ upd' = [upd EXCEPT ![p] =
                     [@ EXCEPT !.pc = "put",
                               !.settings = merge(upd[p].settings, upd[p].updates)]]
     \/ /\ upd' = [upd EXCEPT ![p] = [@ EXCEPT !.pc = "failed"]]
        /\ UNCHANGED settingsKv
  /\ UNCHANGED <<reqVars, fitVars, streamVars, jsonVars, pureVars>>

\* lines 111 and 186-188: the put of saveUserSettings(updated) returns
SaveUserSettingsReturn(p) ==
  /\ upd[p].pc = "put"
  /\ \/ /\ settingsKv' = upd[p].settings
        /\ upd' = [upd EXCEPT ![p] = [@ EXCEPT !.pc = "done"]]
     \/ /\ upd' = [upd EXCEPT ![p] = [@ EXCEPT !.pc = "failed"]]
        /\ UNCHANGED settingsKv
  /\ UNCHANGED <<reqVars, fitVars, streamVars, jsonVars, pureVars>>

(***************************************************************************)
(* workers-ai.ts lines 261-304 and 540-564: the tool path from the model's *)
(* reply to the response.  A reply is a sequence of these pieces of text:  *)
(*   "{"  "}"   the braces                                                 *)
(*   "t"        "tool":"f"                                                 *)
(*   "a"        ,"arguments":                                              *)
(*   "v"        "s"      (a non-empty string)                              *)
(*   "n"        null                                                       *)
(*   "x"        ok       (prose)                                           *)
(* so <<"{","t","a","{","}","}">> is {"tool":"f","arguments":{}}.          *)
(***************************************************************************)
MaxReply == 6

ToolPieces == {"{", "}", "t", "a", "v", "n", "x"}

ToolTexts == UNION { [1..n -> ToolPieces] : n \in 0..MaxReply }

\* line 543: text.match(/\{[^{}]*"tool"[^{}]*\}/), the positions <<i, j>>
\* of the braces of the leftmost match, <<0, 0>> when there is none
matchTool(text) ==
  LET closes(i, j) ==
        /\ text[j] = "}"
        /\ \A k \in (i+1)..(j-1) : text[k] \notin {"{", "}"}
        /\ \E k \in (i+1)..(j-1) : text[k] = "t"
      starts == { i \in 1..Len(text) :
                    text[i] = "{" /\ \E j \in (i+1)..Len(text) : closes(i, j) }
  IN IF starts = {} THEN <<0, 0>>
     ELSE LET i == CHOOSE a \in starts : \A b \in starts : a <= b
              j == CHOOSE b \in (i+1)..Len(text) : closes(i, b)
          IN <<i, j>>

\* line 546: JSON.parse of a matched span, which holds no inner brace: the
\* member "tool":"f" followed by ,"arguments": value any number of times is
\* the only text of these pieces that parses.  The value of arguments is
\* that of its last member, "undefined" when there is none.
parseToolObject(inner) ==
  LET n == Len(inner)
      wellFormed ==
        /\ n >= 1
        /\ n % 2 = 1
        /\ inner[1] = "t"
        /\ \A k \in 2..n : IF k % 2 = 0 THEN inner[k] = "a"
                                         ELSE inner[k] \in {"v", "n"}
  IN IF wellFormed
     THEN [ok |-> TRUE, tool |-> "f",
           arguments |-> IF n = 1 THEN "undefined" ELSE inner[n]]
     ELSE [ok |-> FALSE, tool |-> "undefined", arguments |-> "undefined"]

\* JavaScript truthiness of the values a parsed member can have here
truthy(value) == value \notin {"undefined", "n", ""}

\* JSON.stringify of a parsed value: the text of the value without spaces
stringify(value) == <<value>>

\* lines 540-564
extractToolCalls(text) ==
  LET m == matchTool(text)
  IN IF m = <<0, 0>> THEN <<>>
     ELSE LET parsed == parseToolObject(SubSeq(text, m[1] + 1, m[2] - 1))
          IN IF ~parsed.ok THEN <<>>                       \* catch
             ELSE IF truthy(parsed.tool) /\ truthy(parsed.arguments)
                  THEN <<[name |-> parsed.tool,
                          arguments |-> stringify(parsed.arguments)]>>
                  ELSE <<>>

handleToolRequest_keepsContent(result) ==
  LET toolCalls == extractToolCalls(result)
  IN [kind |-> "response",
      content |-> result,
      tool_calls |-> [present |-> Len(toolCalls) > 0, calls |-> toolCalls],
      finish_reason |-> IF Len(toolCalls) > 0 THEN "tool_calls" ELSE "stop"]

\* lines 276-298: the response built from the model's reply
handleToolRequest(result) ==
  LET toolCalls == extractToolCalls(result)
  IN [kind |-> "response",
      content |-> IF Len(toolCalls) > 0 THEN Null ELSE result,
      tool_calls |-> [present |-> Len(toolCalls) > 0, calls |-> toolCalls],
      finish_reason |-> IF Len(toolCalls) > 0 THEN "tool_calls" ELSE "stop"]

InitTool ==
  /\ InitReq
  /\ InitNoFit
  /\ InitNoStream
  /\ InitNoSettings
  /\ InitNoJson
  /\ toolText \in ToolTexts
  /\ toolResponse = NoResponse
  /\ promptMessages = <<>>
  /\ promptText = Null
  /\ oBody = <<>>
  /\ oPos = 0
  /\ oSplit = FALSE

\* generateText has returned toolText
ToolReply ==
  /\ toolResponse = NoResponse
  /\ toolResponse' = handleToolRequest(toolText)
  /\ UNCHANGED <<toolText, reqVars, fitVars, streamVars, settingsVars, jsonVars,
               promptMessages, promptText, oBody, oPos, oSplit>>

(***************************************************************************)
(* workers-ai.ts lines 488-495: buildPrompt.  The prompt is a text, a      *)
(* sequence of characters.                                                 *)
(***************************************************************************)
MaxMessages == 3

\* types.ts lines 36-37: a role and a content, which can be null
PromptMessages ==
  UNION { [1..n -> [role : {"system", "user", "assistant", "tool"},
                    content : { <<"a">>, <<"b">>, Null }]] : n \in 0..MaxMessages }

L_User == <<"U", "s", "e", "r">>
L_Assistant == <<"A", "s", "s", "i", "s", "t", "a", "n", "t">>

\* a value in a template literal: null is written as the text null
templateText(content) ==
  IF content = Null THEN <<"n", "u", "l", "l">> ELSE content

\* `${role}: ${msg.content}`
roleLine(label, content) == label \o <<":", " ">> \o templateText(content)

\* line 491
roleLabel(role) == IF role = "assistant" THEN L_Assistant ELSE L_User

\* lines 488-495
buildPrompt(messages) ==
  join([i \in 1..Len(messages) |->
          roleLine(roleLabel(messages[i].role), messages[i].content)],
       <<"\n", "\n">>)

InitPrompt ==
  /\ InitReq
  /\ InitNoFit
  /\ InitNoStream
  /\ InitNoSettings
  /\ InitNoJson
  /\ toolText = <<>>
  /\ toolResponse = NoResponse
  /\ promptMessages \in PromptMessages
  /\ promptText = Null
  /\ oBody = <<>>
  /\ oPos = 0
  /\ oSplit = FALSE

\* line 448: buildPrompt(request.messages)
BuildPrompt ==
  /\ promptText = Null
  /\ promptText' = buildPrompt(promptMessages)
  /\ UNCHANGED <<promptMessages, reqVars, fitVars, streamVars, settingsVars,
               jsonVars, toolText, toolResponse, oBody, oPos, oSplit>>

(***************************************************************************)
(* types.ts lines 262-310: the Ollama read loop on one body that the       *)
(* reads deliver in parts of any sizes.                                    *)
(***************************************************************************)
MaxBody == 5

OllamaBodies == UNION { [1..n -> OllamaPieces \cup {"A"}] : n \in 0..MaxBody }

InitSplit ==
  /\ InitReq
  /\ InitNoFit
  /\ InitNoSettings
  /\ InitNoJson
  /\ toolText = <<>>
  /\ toolResponse = NoResponse
  /\ promptMessages = <<>>
  /\ promptText = Null
  /\ sAdapter = "ollama"
  /\ sState = "open"
  /\ sUp = "live"
  /\ sOut = <<>>
  /\ sReads = 0
  /\ sText = <<>>
  /\ sTaken = 0
  /\ sBuffer = <<>>
  /\ sFrames = <<>>
  /\ oBody \in OllamaBodies
  /\ oPos = 0
  /\ oSplit = FALSE

\* lines 267-307: a read that delivers the next n pieces of the body
OllamaReadPart(n) ==
  /\ sAdapter = "ollama"
  /\ sUp = "live"
  /\ oPos + n <= Len(oBody)
  /\ LET res == ollamaStep(sBuffer, sOut, SubSeq(oBody, oPos + 1, oPos + n))
     IN /\ sBuffer' = res.buffer
        /\ sOut' = res.out
        /\ sState' = IF res.done THEN "closed" ELSE sState
        /\ sUp' = IF res.done THEN "ended" ELSE sUp
        /\ oSplit' = (oSplit \/ (~res.done /\ res.buffer # <<>>))
  /\ oPos' = oPos + n
  /\ UNCHANGED <<sAdapter, sReads, sText, sTaken, sFrames, oBody,
               reqVars, fitVars, settingsVars, jsonVars,
               toolText, toolResponse, promptMessages, promptText>>

(***************************************************************************)
(* Specifications.                                                         *)
(*   Spec        one execution path, every request, one after the other    *)
(*   SpecTriage  NumProcs concurrent paths, one triage request each, up to *)
(*               the return of analyzeComplexity                           *)
(*   SpecFit     findModelForFeatures over the registries of at most       *)
(*               MaxReg entries                                            *)
(*   SpecStream  one output stream of a streaming adapter, with its        *)
(*               consumer                                                  *)
(*   SpecSettings  NumProcs concurrent updateUserSettings calls of one     *)
(*               user                                                      *)
(*   SpecJson    cleanJSON over the texts of at most MaxText characters    *)
(*   SpecTool    the tool path over the model replies of at most MaxReply  *)
(*               pieces                                                    *)
(*   SpecPrompt  buildPrompt over the message lists of at most MaxMessages *)
(*               messages                                                  *)
(*   SpecSplit   the Ollama stream over the bodies of at most MaxBody      *)
(*               pieces, delivered in reads of any sizes                   *)
(***************************************************************************)
Next ==
  \/ SubmitAny(1)
  \/ \E body \in Requests : Post(1, body)
  \/ KvGetReturn(1)
  \/ InferReturn(1)
  \/ KvPutReturn(1)
  \/ GenReturn(1)
  \/ Reset(1)
  \/ \E k \in CacheKeys : KvExpire(k)

Spec == Init /\ [][Next]_vars

NextTriage ==
  \/ \E p \in Procs : SubmitTriage(p)
  \/ \E p \in Procs : KvGetReturn(p)
  \/ \E p \in Procs : InferReturn(p)
  \/ \E p \in Procs : KvPutReturn(p)
  \/ \E k \in CacheKeys : KvExpire(k)

SpecTriage == Init /\ [][NextTriage]_vars

NextFit == \E requirements \in Requirements : FindModel(requirements)

SpecFit == InitFit /\ [][NextFit]_vars

NextStream ==
  \/ \E a \in OutputStreams : StartStream(a)
  \/ \E frame \in WaiFrames : WaiFrame(frame)
  \/ WaiDone
  \/ \E item \in SdkItems : SdkItem(item)
  \/ SdkEnd
  \/ \E event \in AnthEvents : AnthEvent(event)
  \/ AnthEnd
  \/ OllamaNoBody
  \/ \E value \in OllamaReads : OllamaRead(value)
  \/ OllamaEnd
  \/ ReadThrows
  \/ Consume

SpecStream == Init /\ [][NextStream]_vars

NextSettings ==
  \/ \E p \in Procs : \E updates \in Updates : UpdateUserSettings(p, updates)
  \/ \E p \in Procs : GetUserSettingsReturn(p)
  \/ \E p \in Procs : CreateDefaultSettingsReturn(p)
  \/ \E p \in Procs : SaveUserSettingsReturn(p)

SpecSettings == InitSettings /\ [][NextSettings]_vars

NextJson == CleanTwice

SpecJson == InitJson /\ [][NextJson]_vars

NextTool == ToolReply

SpecTool == InitTool /\ [][NextTool]_vars

NextPrompt == BuildPrompt

SpecPrompt == InitPrompt /\ [][NextPrompt]_vars

NextSplit ==
  \/ \E n \in 1..MaxBody : OllamaReadPart(n)
  \/ (oPos = Len(oBody) /\ OllamaEnd)

SpecSplit == InitSplit /\ [][NextSplit]_vars

(***************************************************************************)
(* Claims about routing and model selection (specification Spec).          *)
(***************************************************************************)
P_ollama == <<"o", "l", "l", "a", "m", "a", "/">>

noExternalCall(st) ==
  st.nGet = 0 /\ st.nInfer = 0 /\ st.nPut = 0 /\ st.nGen = 0

registryIds == { WORKERS_AI_MODELS[i].id : i \in 1..Len(WORKERS_AI_MODELS) }

C2_OllamaDispatched ==
  \A p \in Procs :
    (proc[p].pc # "idle" /\ startsWith(proc[p].req.model, P_ollama)) =>
      /\ proc[p].adapter = "ollama"
      /\ proc[p].outcome # thrown("unsupported_model")

\* C3: a Workers-AI request naming an @cf/ model that is not in the
\* registry ends with the unknown-model error, and no cache access, triage
\* inference or generation call has been issued for it.
C3_UnknownModelRejected ==
  \A p \in Procs :
    (/\ proc[p].pc # "idle"
     /\ startsWith(proc[p].req.model, P_cf)
     /\ proc[p].req.model \notin registryIds) =>
      /\ proc[p].pc = "done"
      /\ proc[p].outcome = thrown("unknown_model")
      /\ noExternalCall(proc[p])

C3_Witness ==
  \E p \in Procs :
    /\ proc[p].req.model = M_cfunknown
    /\ proc[p].req.tools = "some"
    /\ proc[p].outcome = thrown("unknown_model")

\* C4: for model workers-ai with a non-empty tools list the selected model
\* supports tools, no tool-supporting registry model has a higher
\* complexity tier, and @cf/meta/llama-3-8b-instruct is not the one used.
C4_ToolsModelSelected ==
  \A p \in Procs :
    (/\ proc[p].pc # "idle"
     /\ proc[p].req.model = S_workers_ai
     /\ hasTools(proc[p].req)) =>
      LET sel == proc[p].selectedModel IN
      /\ sel.supportsTools
      /\ sel.id \in registryIds
      /\ sel.id # Id_llama3
      /\ \A i \in 1..Len(WORKERS_AI_MODELS) :
           WORKERS_AI_MODELS[i].supportsTools =>
             complexityOrder(WORKERS_AI_MODELS[i].complexity) <= complexityOrder(sel.complexity)

C4_Witness ==
  \E p \in Procs :
    /\ proc[p].req.model = S_workers_ai
    /\ hasTools(proc[p].req)
    /\ proc[p].pc = "gen"
    /\ proc[p].mode = "tool"
    /\ proc[p].selectedModel.id = Id_llama33

\* C5: for model workers-ai without tools and without json_object, the
\* selected model is powerful when triage returned high and fast when
\* triage returned low.
C5_TriageSelectsTier ==
  \A p \in Procs :
    (/\ proc[p].req.model = S_workers_ai
     /\ ~hasTools(proc[p].req)
     /\ ~wantsJSON(proc[p].req)) =>
      /\ proc[p].verdict = "high" => proc[p].selectedModel.complexity = "powerful"
      /\ proc[p].verdict = "low" => proc[p].selectedModel.complexity = "fast"
      /\ proc[p].pc \in {"gen", "done"} => proc[p].verdict \in {"low", "high"}

C5_Witness ==
  \E p \in Procs :
    /\ proc[p].req.model = S_workers_ai
    /\ proc[p].verdict = "high"
    /\ proc[p].nInfer = 1
    /\ ~proc[p].inferFailed
    /\ proc[p].selectedModel.id = Id_llama33
    /\ proc[p].pc = "gen"

(***************************************************************************)
(* Claim about findModelForFeatures (specification SpecFit).               *)
(***************************************************************************)
\* C6: over every non-empty registry and every combination of tools, json
\* and complexity, findModelForFeatures returns an entry of the registry;
\* asked for {tools, powerful} where no tool-supporting model is powerful
\* but some model supports tools, it returns a tool-supporting model of
\* lower complexity; when no entry meets the tools/json requirements it
\* returns the first powerful entry, else the first entry.
C6_BestFitNeverFails ==
  fitRequirements # NoRequirements =>
    LET reg == fitRegistry
        q == fitRequirements
        res == fitResult
        idx == 1..Len(reg)
        meets(m) == (q.tools => m.supportsTools) /\ (q.json => m.supportsJSON)
        powerfulIdx == { i \in idx : reg[i].complexity = "powerful" }
    IN /\ \E i \in idx : reg[i] = res
       /\ (/\ q.tools /\ ~q.json /\ q.complexity = "powerful"
           /\ ~\E i \in idx : reg[i].supportsTools /\ reg[i].complexity = "powerful"
           /\ \E i \in idx : reg[i].supportsTools) =>
            /\ res.supportsTools
            /\ complexityOrder(res.complexity) < complexityOrder("powerful")
       /\ (~\E i \in idx : meets(reg[i])) =>
            res = IF powerfulIdx # {}
                  THEN reg[CHOOSE i \in powerfulIdx : \A j \in powerfulIdx : i <= j]
                  ELSE reg[1]

C6_Witness ==
  /\ fitRequirements = [tools |-> TRUE, json |-> FALSE, complexity |-> "powerful"]
  /\ Len(fitRegistry) = 2
  /\ fitRegistry[1].complexity = "powerful"
  /\ ~fitRegistry[1].supportsTools
  /\ fitRegistry[2].supportsTools
  /\ fitResult = fitRegistry[2]

(***************************************************************************)
(* Claims about analyzeComplexity.                                         *)
(***************************************************************************)
\* analyzeComplexity has returned on path p
returned(p) == proc[p].verdict # "none"

\* call j was made after call i had returned, with the same message content
inSequence(i, j) ==
  /\ i # j
  /\ i \in proc[j].returnedBefore
  /\ proc[i].cacheKey # <<>>
  /\ proc[i].cacheKey = proc[j].cacheKey

\* calls i and j for the same message content overlap
concurrent(i, j) ==
  /\ i # j
  /\ i \notin proc[j].returnedBefore
  /\ j \notin proc[i].returnedBefore
  /\ proc[i].cacheKey # <<>>
  /\ proc[i].cacheKey = proc[j].cacheKey

\* C7 as stated: of two analyzeComplexity calls in sequence with identical
\* content, at most one issues an inference call, and the second is served
\* from the cache with the verdict of the first.
C7_SecondCallFromCache ==
  \A i, j \in Procs :
    (inSequence(i, j) /\ returned(i) /\ returned(j)) =>
      /\ proc[i].nInfer + proc[j].nInfer <= 1
      /\ proc[j].nInfer = 0
      /\ proc[j].verdict = proc[i].verdict

\* C7 amended: of two analyzeComplexity calls in sequence with identical
\* content, when the cache lookup of the second succeeds and returns the
\* entry the first one stored, only the first issued an inference call and
\* the second returns the verdict of the first.
C7_SecondCallFromStoredEntry ==
  \A i, j \in Procs :
    (inSequence(i, j) /\ proc[j].pc # "kvget" /\ proc[j].sawWriter = i) =>
      /\ proc[i].nInfer = 1
      /\ proc[j].nInfer = 0
      /\ returned(j)
      /\ proc[j].verdict = proc[i].verdict

C7_Witness ==
  \E i, j \in Procs :
    /\ inSequence(i, j)
    /\ proc[i].req.messages # proc[j].req.messages
    /\ proc[j].sawWriter = i
    /\ proc[j].nInfer = 0
    /\ proc[j].verdict = "low"
    /\ proc[j].pc = "gen"

\* C8: analyzeComplexity always returns low or high and no failure of the
\* cache or of the triage inference ends the request: after a failed
\* lookup the inference call is issued, a failed inference call gives
\* high, and after a failed cache write the computed verdict is returned.
C8_TriageNeverThrows ==
  \A p \in Procs : proc[p].nGet > 0 =>
    LET st == proc[p] IN
    /\ st.pc \in {"gen", "done"} => st.verdict \in {"low", "high"}
    /\ st.outcome.kind = "error" => (st.outcome.error = "upstream" /\ st.nGen = 1)
    /\ (st.getFailed /\ st.pc # "kvget") => st.nInfer = 1
    /\ st.inferFailed => (st.verdict = "high" /\ st.pc \in {"gen", "done"})
    /\ st.putFailed => (st.verdict = st.complexity /\ st.pc \in {"gen", "done"})

C8_Witness ==
  \E p \in Procs :
    /\ proc[p].getFailed
    /\ proc[p].inferFailed
    /\ proc[p].verdict = "high"
    /\ proc[p].pc = "gen"

\* C9 as stated: two concurrent analyzeComplexity calls for the same
\* content return the same verdict, and once both have returned the cache
\* entry of that content holds that verdict.
C9_ConcurrentWritesAgree ==
  \A i, j \in Procs :
    (concurrent(i, j) /\ returned(i) /\ returned(j)) =>
      /\ proc[i].verdict = proc[j].verdict
      /\ kv[proc[i].cacheKey] # "absent" => kv[proc[i].cacheKey] = proc[i].verdict

\* C9 amended: every analyzeComplexity call returns low or high, a call
\* that writes the cache returns the value it wrote, and a live cache
\* entry holds the verdict returned by the call that wrote it last.
C9_EntryHoldsLastWritersVerdict ==
  /\ \A p \in Procs :
       /\ proc[p].pc \in {"gen", "done"} => proc[p].verdict \in {"low", "high"}
       /\ (proc[p].nPut = 1 /\ returned(p)) => proc[p].verdict = proc[p].complexity
  /\ \A k \in CacheKeys :
       /\ kvWriter[k] = 0 <=> kv[k] = "absent"
       /\ kvWriter[k] # 0 =>
            /\ proc[kvWriter[k]].cacheKey = k
            /\ ~proc[kvWriter[k]].putFailed
            /\ kv[k] = proc[kvWriter[k]].verdict

C9_Witness ==
  \E i, j \in Procs :
    /\ concurrent(i, j)
    /\ proc[i].pc = "gen" /\ proc[j].pc = "gen"
    /\ proc[i].nPut = 1 /\ ~proc[i].putFailed
    /\ proc[j].nPut = 1 /\ ~proc[j].putFailed
    /\ proc[i].verdict = "high" /\ proc[j].verdict = "low"
    /\ kvWriter[proc[i].cacheKey] = j
    /\ kv[proc[i].cacheKey] = "low"

(***************************************************************************)
(* Claim about the streams (specification SpecStream).                     *)
(***************************************************************************)
isTerminal(x) == x.finish = "stop" \/ x.finish = "[DONE]"

\* C10: a closed stream of the Workers-AI, OpenAI or Gemini adapter ends
\* with the chunk with finish_reason stop and empty delta followed by
\* [DONE]; every element before them is a chunk with finish_reason null;
\* an open or errored stream holds neither the stop chunk nor [DONE].
C10_TerminalSentinel ==
  sAdapter \in StreamAdapters =>
    /\ sState = "closed" =>
         /\ Len(sOut) >= 2
         /\ sOut[Len(sOut) - 1] = finalChunk
         /\ sOut[Len(sOut)] = DoneSentinel
         /\ \A i \in 1..(Len(sOut) - 2) : sOut[i].finish = "null"
    /\ sState \in {"open", "errored"} =>
         \A i \in 1..Len(sOut) : ~isTerminal(sOut[i])

C10_Witness ==
  /\ sAdapter = "workers-ai"
  /\ sState = "closed"
  /\ Len(sOut) = 4
  /\ sOut[1] = contentChunk("a")
  /\ sOut[2] = contentChunk("null")

deltaContents(out) ==
  LET sel == SelectSeq(out, LAMBDA x : x.finish = "null" /\ x.content # "absent")
  IN [i \in 1..Len(sel) |-> sel[i].content]

\* C12: when the stream of the OpenAI or Gemini adapter has completed, the
\* concatenation of delta.content over its chunks other than the terminal
\* chunk equals the text of the same upstream, which is the content of the
\* non-streaming response.
C12_StreamEqualsNonStream ==
  (sAdapter \in {"openai", "gemini"} /\ sState = "closed") =>
    deltaContents(sOut) = sText

\* C13: the producer loop of the Workers-AI, OpenAI or Gemini stream reads
\* the next upstream frame only when the consumer has taken every chunk
\* emitted so far, so that no more than the chunk of one frame is ever
\* waiting in the output stream.
C13_BackpressureCoupled ==
  [][ (sAdapter \in StreamAdapters /\ sReads' = sReads + 1) =>
        sTaken = Len(sOut) ]_vars

(***************************************************************************)
(* Claim about cleanJSON (specification SpecJson).                         *)
(***************************************************************************)
\* C14: for every text, cleanJSON(cleanJSON(text)) equals cleanJSON(text).
C14_CleanJSONIdempotent ==
  jsonOnce # Null => jsonTwice = jsonOnce

C14_Witness ==
  /\ jsonText = <<"1", "[", "[", "]", "]">>
  /\ jsonOnce = <<"[", "[", "]", "]">>
  /\ jsonTwice = jsonOnce

(***************************************************************************)
(* Claims about the handlers (specification Spec).                         *)
(***************************************************************************)
\* C15: for every request the adapter issues at most one generation call
\* and the Workers-AI adapter at most one triage inference call; when the
\* generation call fails the request ends with that failure after this
\* one call, and carries no response.
C15_OneCallNoRetry ==
  \A p \in Procs :
    LET st == proc[p] IN
    /\ st.nGen <= 1
    /\ st.nInfer <= 1
    /\ st.adapter # "workers-ai" => st.nInfer = 0
    /\ st.outcome.kind \in {"response", "stream"} =>
         (st.pc = "done" /\ st.nGen = 1 /\ st.outcome.error = "none")
    /\ st.outcome.error = "upstream" =>
         /\ st.pc = "done"
         /\ st.nGen = 1
         /\ st.outcome.kind = "error"
         /\ st.outcome.raw = <<>>
         /\ st.outcome.model = <<>>

C15_Witness ==
  \E p \in Procs :
    /\ proc[p].adapter = "workers-ai"
    /\ proc[p].nInfer = 1
    /\ proc[p].nGen = 1
    /\ proc[p].outcome = thrown("upstream")

\* C16: the answer of the chat-completions endpoint to a failed request
\* has a server-error status and names the provider when the upstream call
\* failed, and has a client-error status when the model is unsupported or
\* unknown; the two answers differ in status or type.
C16_ErrorClasses ==
  \A p \in Procs :
    (proc[p].pc = "done" /\ proc[p].outcome.kind = "error") =>
      LET resp == chatCompletions(proc[p].outcome)
          unsupported == chatCompletions(thrown("unsupported_model"))
      IN /\ proc[p].outcome.error = "upstream" =>
              /\ resp.status \in 500..599
              /\ resp.provider = proc[p].adapter
              /\ <<resp.status, resp.type>> # <<unsupported.status, unsupported.type>>
         /\ proc[p].outcome.error \in {"unsupported_model", "unknown_model"} =>
              resp.status \in 400..499

(***************************************************************************)
(* Claim about the settings store (specification SpecSettings).            *)
(***************************************************************************)
\* updateUserSettings calls i and j overlap
concurrentUpdates(i, j) ==
  /\ i # j
  /\ i \notin upd[j].doneBefore
  /\ j \notin upd[i].doneBefore

\* C17: when two concurrent updateUserSettings calls of the same user, one
\* changing only language and the other only theme, have both returned and
\* no other call was made, the stored settings hold both changes.
C17_NoLostUpdate ==
  \A i, j \in Procs :
    (/\ concurrentUpdates(i, j)
     /\ upd[i].pc = "done" /\ upd[j].pc = "done"
     /\ upd[i].updates.language # "absent" /\ upd[i].updates.theme = "absent"
     /\ upd[j].updates.theme # "absent" /\ upd[j].updates.language = "absent"
     /\ \A k \in Procs \ {i, j} : upd[k].pc = "idle") =>
      /\ settingsKv # NoSettings
      /\ settingsKv.language = upd[i].updates.language
      /\ settingsKv.theme = upd[j].updates.theme

\* the cache read, triage inference or cache write was issued on path st
triageRan(st) == st.nGet > 0 \/ st.nInfer > 0 \/ st.nPut > 0

\* C18: in the Workers-AI handler an explicit @cf/ model is used as given
\* whatever the tools and the response format are; otherwise non-empty
\* tools select the model; otherwise json_object selects it; and the cache
\* read, the triage inference and the cache write are issued only for
\* model workers-ai with absent or empty tools and a format other than
\* json_object, where the cache read is always issued.
C18_BranchOrder ==
  \A p \in Procs : proc[p].adapter = "workers-ai" =>
    LET st == proc[p]
        r == st.req
        explicit == startsWith(r.model, P_cf)
    IN /\ explicit =>
            /\ ~triageRan(st)
            /\ \/ st.outcome = thrown("unknown_model")
               \/ (st.routingReason = "user_specified" /\ st.selectedModel.id = r.model)
       /\ (~explicit /\ hasTools(r)) =>
            (~triageRan(st) /\ st.routingReason = "tools_required")
       /\ (~explicit /\ ~hasTools(r) /\ wantsJSON(r)) =>
            (~triageRan(st) /\ st.routingReason = "json_required")
       /\ (~explicit /\ ~hasTools(r) /\ ~wantsJSON(r)) =>
            /\ st.nGet = 1
            /\ st.routingReason \in {"none", "complexity_high", "complexity_low"}
       /\ triageRan(st) =>
            (r.model = S_workers_ai /\ r.tools \in {"absent", "empty"} /\ r.format # "json_object")

C18_Witness ==
  \E p \in Procs :
    /\ proc[p].req.model = Id_llama33
    /\ hasTools(proc[p].req)
    /\ wantsJSON(proc[p].req)
    /\ proc[p].routingReason = "user_specified"
    /\ proc[p].selectedModel.id = Id_llama33
    /\ proc[p].nGet = 0
    /\ proc[p].pc = "gen"

(***************************************************************************)
(* Claims about the Anthropic and Ollama streams (specification            *)
(* SpecStream).                                                            *)
(***************************************************************************)
\* C19: once the event iterator of an Anthropic stream has ended, with or
\* without message_stop, the output stream is closed or errored, and a
\* closed one ends with the stop chunk followed by [DONE], each emitted
\* once; at no time does anything follow [DONE].
C19_AnthropicTerminates ==
  sAdapter = "anthropic" =>
    /\ sUp = "ended" =>
         /\ sState \in {"closed", "errored"}
         /\ sState = "closed" =>
              /\ Len(sOut) >= 2
              /\ sOut[Len(sOut) - 1] = finalChunk
              /\ sOut[Len(sOut)] = DoneSentinel
              /\ \A i \in 1..(Len(sOut) - 2) : ~isTerminal(sOut[i])
    /\ \A i \in 1..Len(sOut) : sOut[i] = DoneSentinel => i = Len(sOut)

\* C20: an Ollama stream that has completed, on a done line or at the end
\* of the body, ends with the chunk with finish_reason stop and empty delta
\* followed by [DONE], and every chunk that carries content has
\* finish_reason null.
C20_OllamaTerminalChunk ==
  (sAdapter = "ollama" /\ sUp = "ended") =>
    /\ Len(sOut) >= 2
    /\ sOut[Len(sOut) - 1] = finalChunk
    /\ sOut[Len(sOut)] = DoneSentinel
    /\ \A i \in 1..Len(sOut) : sOut[i].content # "absent" => sOut[i].finish = "null"

(***************************************************************************)
(* Claim about the frames of the Workers-AI stream (specification          *)
(* SpecStream).                                                            *)
(***************************************************************************)
\* the text a frame carries: the response or text field of a JSON object,
\* and the frame itself when it is bare text
frameText(frame) ==
  IF frame.parsed = "object"
  THEN (IF frame.response # "" THEN frame.response ELSE frame.text)
  ELSE frame.raw

\* C21: the contents of the chunks of a Workers-AI stream other than the
\* terminal chunk are the texts of the frames read so far that carry
\* non-empty text, one chunk per frame, in the order of the frames.
C21_OneChunkPerFrame ==
  sAdapter = "workers-ai" =>
    LET texts == SelectSeq(sFrames, LAMBDA f : frameText(f) # "")
    IN deltaContents(sOut) = [i \in 1..Len(texts) |-> frameText(texts[i])]

(***************************************************************************)
(* Claims about the Workers-AI tool path (specification SpecTool).         *)
(***************************************************************************)
\* C22: the response of the tool path has one of two shapes: exactly one
\* tool call with content null and finish reason 'tool_calls', or no
\* tool_calls with the raw model text as content and finish reason 'stop';
\* content is null exactly when tool_calls is present, and no reply makes
\* the path raise.
C22_TwoShapes ==
  toolResponse # NoResponse =>
    /\ toolResponse.kind = "response"
    /\ \/ /\ toolResponse.tool_calls.present
          /\ Len(toolResponse.tool_calls.calls) = 1
          /\ toolResponse.content = Null
          /\ toolResponse.finish_reason = "tool_calls"
       \/ /\ ~toolResponse.tool_calls.present
          /\ toolResponse.tool_calls.calls = <<>>
          /\ toolResponse.content = toolText
          /\ toolResponse.finish_reason = "stop"

C22_Witness ==
  /\ toolResponse # NoResponse
  /\ toolResponse.tool_calls.present
  /\ toolResponse.content = Null
  /\ Len(toolText) > 5

\* a reply that holds a tool object and is handled as plain text
C22_WitnessPlain ==
  /\ toolResponse # NoResponse
  /\ matchTool(toolText) # <<0, 0>>
  /\ ~toolResponse.tool_calls.present
  /\ toolResponse.content = toolText

\* the reply {"tool":"f","arguments":<object>} the tool prompt asks for,
\* with the text of the object
isObjectText(obj) ==
  /\ Len(obj) >= 2
  /\ obj[1] = "{"
  /\ obj[Len(obj)] = "}"
  /\ \/ Len(obj) = 2
     \/ parseToolObject(SubSeq(obj, 2, Len(obj) - 1)).ok

argumentsOf(text) == SubSeq(text, 4, Len(text) - 1)

demandedShape(text) ==
  /\ Len(text) >= 6
  /\ SubSeq(text, 1, 3) = <<"{", "t", "a">>
  /\ text[Len(text)] = "}"
  /\ isObjectText(argumentsOf(text))

\* C23: a reply of the shape {"tool": name, "arguments": object} yields
\* exactly one tool call with that name, the object re-serialized as its
\* arguments, and finish reason 'tool_calls'.
C23_ToolCallExtracted ==
  (toolResponse # NoResponse /\ demandedShape(toolText)) =>
    /\ toolResponse.tool_calls.present
    /\ toolResponse.tool_calls.calls =
         <<[name |-> "f", arguments |-> argumentsOf(toolText)]>>
    /\ toolResponse.finish_reason = "tool_calls"

\* what the code does with such a reply: it is answered as plain text
C23_ShapeIsPlainText ==
  (toolResponse # NoResponse /\ demandedShape(toolText)) =>
    /\ ~toolResponse.tool_calls.present
    /\ toolResponse.content = toolText
    /\ toolResponse.finish_reason = "stop"

(***************************************************************************)
(* Second claim about cleanJSON (specification SpecJson).                  *)
(***************************************************************************)
\* the span of a text from its first opener to the last closer of the same
\* type, <<>> when there is no opener or no such closer after it
spanOf(text) ==
  LET opens == { i \in 1..Len(text) : text[i] \in {"{", "["} }
  IN IF opens = {} THEN <<>>
     ELSE LET o == CHOOSE i \in opens : \A j \in opens : i <= j
              closer == IF text[o] = "{" THEN "}" ELSE "]"
              closes == { i \in (o + 1)..Len(text) : text[i] = closer }
          IN IF closes = {} THEN <<>>
             ELSE SubSeq(text, o, CHOOSE i \in closes : \A j \in closes : j <= i)

\* C24: cleanJSON never raises: it returns the span from the first '{' or
\* '[' (whichever comes first) to the last closer of the same type when
\* that span parses as JSON, and the input unchanged otherwise (no opener,
\* no closer after the opener, or a span that is not JSON).
C24_SpanOrInput ==
  jsonOnce # Null =>
    jsonOnce = IF spanOf(jsonText) # <<>> /\ isJSON(spanOf(jsonText))
               THEN spanOf(jsonText)
               ELSE jsonText

\* a span that is a proper part of the text is returned
C24_Witness ==
  /\ jsonOnce # Null
  /\ jsonOnce = spanOf(jsonText)
  /\ Len(jsonOnce) < Len(jsonText)
  /\ jsonText[Len(jsonText)] = "1"

\* a closer before the opener: the text is returned unchanged
C24_WitnessUnchanged ==
  /\ jsonOnce # Null
  /\ indexOf(jsonText, "}") >= 0
  /\ indexOf(jsonText, "}") < indexOf(jsonText, "{")
  /\ spanOf(jsonText) = <<>>
  /\ jsonOnce = jsonText

(***************************************************************************)
(* Claim about the flat prompt (specification SpecPrompt).                 *)
(***************************************************************************)
\* the label of the line the system message is to be folded into
L_System == <<"S", "y", "s", "t", "e", "m">>

systemMessages(messages) == SelectSeq(messages, LAMBDA m : m.role = "system")

otherMessages(messages) == SelectSeq(messages, LAMBDA m : m.role # "system")

\* the prompt with the system message as a 'System:' line at the top and
\* the other messages after it in their order
foldedPrompt(messages) ==
  LET sys == systemMessages(messages)
      rest == otherMessages(messages)
  IN join([i \in 1..Len(sys) |-> roleLine(L_System, sys[i].content)]
          \o [i \in 1..Len(rest) |->
                roleLine(roleLabel(rest[i].role), rest[i].content)],
          <<"\n", "\n">>)

\* C25: the flat prompt is the messages in original order, each rendered
\* as "Role: content" and joined by a blank line, with role label 'User' or
\* 'Assistant', and a system message folded in as a 'System:' line at the
\* top when one is present.
C25_FlatPrompt ==
  (promptText # Null /\ Len(systemMessages(promptMessages)) <= 1) =>
    promptText = foldedPrompt(promptMessages)

\* what holds of the code: without a system message the prompt is as stated
C25_FlatPromptWithoutSystem ==
  (promptText # Null /\ Len(systemMessages(promptMessages)) = 0) =>
    promptText = foldedPrompt(promptMessages)

(***************************************************************************)
(* Claims about the Workers-AI paths of a request (specification Spec).    *)
(***************************************************************************)
\* the state of a path on which routeRequest was called with the request
direct(request) == dispatch([IdleProc EXCEPT !.req = request])

\* C26: a request submitted to POST /v1/chat/completions with model
\* 'workers-ai', no tools and response_format.type 'json_object' is handled
\* by the JSON path, with the model and routing of the same request passed
\* to routeRequest directly.
C26_EndpointJsonPath ==
  LET st == proc[1] IN
  ( /\ st.body # NoReq
    /\ st.body.model = S_workers_ai
    /\ ~hasTools(st.body)
    /\ wantsJSON(st.body)
    /\ st.nGen > 0 ) =>
    /\ st.mode = "json"
    /\ st.routingReason = "json_required"
    /\ st.selectedModel = direct(st.body).selectedModel
    /\ direct(st.body).mode = "json"

\* what the code does with it: the request takes the triage path
C26_EndpointTakesTriage ==
  LET st == proc[1] IN
  ( /\ st.body # NoReq
    /\ st.body.model = S_workers_ai
    /\ ~hasTools(st.body)
    /\ st.pc # "idle" ) =>
    /\ st.nGet = 1
    /\ st.mode \in {"none", "text", "textstream"}

\* the request of a path names a registry model that lacks a feature the
\* request asks for
lacksFeature(st) ==
  LET m == getModelCapabilities(st.req.model)
  IN /\ startsWith(st.req.model, P_cf)
     /\ m # NoModel
     /\ \/ (~m.supportsTools /\ hasTools(st.req))
        \/ (~m.supportsJSON /\ wantsJSON(st.req))

C27_WitnessJson ==
  /\ proc[1].req.model = Id_mistral
  /\ ~hasTools(proc[1].req)
  /\ wantsJSON(proc[1].req)
  /\ proc[1].outcome = thrown("json_unsupported")

\* C28: a Workers-AI request with a non-empty tools list or with
\* json_object never produces a stream, also when it asks for one: its
\* generation call, when it returns, gives a single response; only plain
\* text requests can stream.
C28_FeatureRequestsNeverStream ==
  LET st == proc[1] IN
  st.adapter = "workers-ai" =>
    /\ (hasTools(st.req) \/ wantsJSON(st.req)) =>
         /\ st.outcome.kind # "stream"
         /\ st.mode \in {"none", "tool", "json"}
         /\ (st.pc = "done" /\ st.outcome.kind # "error") =>
              st.outcome.kind = "response"
    /\ st.outcome.kind = "stream" =>
         (st.req.stream /\ ~hasTools(st.req) /\ ~wantsJSON(st.req))

C28_Witness ==
  /\ proc[1].adapter = "workers-ai"
  /\ proc[1].req.stream
  /\ hasTools(proc[1].req)
  /\ proc[1].mode = "tool"
  /\ proc[1].outcome.kind = "response"

C28_WitnessStream ==
  /\ proc[1].adapter = "workers-ai"
  /\ proc[1].outcome.kind = "stream"

(***************************************************************************)
(* Claim about the triage fallback (specification SpecTriage).             *)
(***************************************************************************)
\* q was submitted after analyzeComplexity had returned on p, for the same
\* content, and its cache lookup has returned
laterLookup(p, q) ==
  /\ p \in proc[q].returnedBefore
  /\ proc[q].cacheKey = proc[p].cacheKey
  /\ proc[q].pc \notin {"idle", "kvget"}

\* C29: when the triage inference fails the fallback 'high' is returned
\* without any cache write, so the cache never holds a verdict that was not
\* derived from a model reply, and a later call with the same content that
\* finds no entry issues a new inference.
C29_FallbackNotCached ==
  /\ \A p \in Procs : proc[p].inferFailed =>
       /\ proc[p].verdict = "high"
       /\ proc[p].nPut = 0
       /\ \A k \in CacheKeys : kvWriter[k] # p
       /\ \A q \in Procs :
            (laterLookup(p, q) /\ proc[q].sawWriter = 0) => proc[q].nInfer = 1
  /\ \A k \in CacheKeys : kv[k] # "absent" =>
       /\ kvWriter[k] \in Procs
       /\ ~proc[kvWriter[k]].inferFailed
       /\ proc[kvWriter[k]].nInfer = 1
       /\ proc[kvWriter[k]].complexity = kv[k]

C29_Witness ==
  \E p, q \in Procs :
    /\ proc[p].inferFailed
    /\ proc[p].verdict = "high"
    /\ laterLookup(p, q)
    /\ ~proc[q].getFailed
    /\ proc[q].nInfer = 1
    /\ proc[q].verdict = "low"
    /\ kv[proc[q].cacheKey] = "low"

(***************************************************************************)
(* Claim about the Ollama read loop (specification SpecSplit).             *)
(***************************************************************************)
\* what the loop has enqueued when a text arrives in a single read
oneRead(text) == ollamaStep(<<>>, <<>>, text).out

\* C30: the chunk sequence of the Ollama stream depends only on the bytes
\* the upstream has delivered, not on how the reads split them: after any
\* reads the output is that of a single read of the delivered text, and a
\* JSON line split across reads yields the same single chunk at the same
\* position.
C30_SplitIndependent ==
  sAdapter = "ollama" =>
    /\ sOut = oneRead(SubSeq(oBody, 1, oPos))
    /\ sUp = "ended" => sOut = oneRead(oBody)

\* a line that arrived in two reads has yielded its chunk after a whole line
C30_Witness ==
  /\ oBody = <<"A", "\n", "<", ">", "\n">>
  /\ oSplit
  /\ sBuffer = <<>>
  /\ sUp = "ended"
  /\ deltaContents(sOut) = <<"a", "a">>

====
